---- MODULE Spec2Model ----
(***************************************************************************)
(* A model of CIAlign.py: the alignment loader (FastaToArray), the         *)
(* sequence-type detector (seqType), the name tracker (updateNams), the    *)
(* degeneracy guard (checkArrLength), the output writer (writeOutfile) and *)
(* the cleaning pipeline of main().                                        *)
(*                                                                         *)
(* A character is a one-character string, a text line or a row of the     *)
(* alignment is a sequence of characters, a file is a sequence of lines.   *)
(* The trimming functions (cropEnds, removeBadlyAligned, removeInsertions, *)
(* removeTooShort, removeGapOnly) and the colour tables of consensusSeq    *)
(* are not part of CIAlign.py; they are modelled from their contract.      *)
(***************************************************************************)
EXTENDS Integers, Sequences, FiniteSets, TLC

VARIABLES
    pc,                 \* position of main(): the next block to execute
    args,               \* the parsed enable flags (argparse namespace)
    infile,             \* the lines of the input file
    arr,                \* the current alignment: a sequence of rows
    nams,               \* the current sequence names
    orig_arr,           \* copy of the alignment taken after loading
    orig_nams,          \* copy of the names taken after loading
    markupdict,         \* stage identifier -> what the stage removed
    relativePositions,  \* original column index of every column
    removed_seqs,       \* names of the removed sequences
    removed_cols,       \* original indices of the removed columns
    counts,             \* seqType's bucket counts (n, a, x)
    typ,                \* seqType's result
    outfile,            \* the output alignment file
    rmfile,             \* the removal report file
    outWrites,          \* how many times the output alignment was opened for writing
    err,                \* the exception that ended the run, "none" if none
    executed            \* the stages called so far, in call order

vars == <<pc, args, infile, arr, nams, orig_arr, orig_nams, markupdict,
          relativePositions, removed_seqs, removed_cols, counts, typ,
          outfile, rmfile, outWrites, err, executed>>

(***************************************************************************)
(* Bounds of the model.                                                    *)
(***************************************************************************)
MaxRows == 3        \* rows of an input alignment
MaxCols == 2        \* columns of an input alignment
MaxLines == 3       \* lines of a file given to the loader alone
MaxLineLen == 2     \* characters of such a line
MaxSeqLen == 5      \* residues of a first row given to the detector alone

(***************************************************************************)
(* Helpers.                                                                *)
(***************************************************************************)
Range(s) == {s[i] : i \in 1..Len(s)}

Min(a, b) == IF a <= b THEN a ELSE b

\* All sequences over S of length at most n.
SeqsUpTo(S, n) == UNION {[1..k -> S] : k \in 0..n}

\* s without the elements at the indices in D, order kept.
RECURSIVE DropIdx(_, _)
DropIdx(s, D) ==
    IF s = <<>> THEN <<>>
    ELSE LET rest == DropIdx(Tail(s), {d - 1 : d \in D \ {1}})
         IN  IF 1 \in D THEN rest ELSE <<Head(s)>> \o rest

NoFile == [exists |-> FALSE, lines |-> <<>>]
EmptyFile == [exists |-> TRUE, lines |-> <<>>]

(***************************************************************************)
(* FastaToArray                                                            *)
(***************************************************************************)
IsSpace(c) == c = " "

RECURSIVE lstrip(_)
lstrip(s) == IF s # <<>> /\ IsSpace(Head(s)) THEN lstrip(Tail(s)) ELSE s

RECURSIVE rstrip(_)
rstrip(s) ==
    IF s # <<>> /\ IsSpace(s[Len(s)]) THEN rstrip(SubSeq(s, 1, Len(s) - 1)) ELSE s

\* str.strip()
strip(s) == rstrip(lstrip(s))

\* str.replace(old, "")
replace(s, old) == SelectSeq(s, LAMBDA c : c # old)

\* The locals before the loop.  seq starts as the string "" and becomes a list
\* at the first header line; seq_is_str tells the two apart.
LoopStart ==
    [nams |-> <<>>, seqs |-> <<>>, nam |-> <<>>, seq |-> <<>>,
     seq_is_str |-> TRUE, err |-> "none"]

\* One iteration of "for line in input".
LoopBody(st, rawline) ==
    LET line == strip(rawline) IN
    IF line = <<>> THEN [st EXCEPT !.err = "IndexError"]           \* line[0]
    ELSE IF line[1] = ">" THEN
        [st EXCEPT !.seqs = Append(st.seqs, st.seq),
                   !.nams = Append(st.nams, st.nam),
                   !.seq = <<>>,
                   !.seq_is_str = FALSE,
                   !.nam = replace(line, ">")]
    ELSE IF st.seq_is_str THEN [st EXCEPT !.err = "TypeError"]      \* "" += list
    ELSE [st EXCEPT !.seq = st.seq \o line]

RECURSIVE Loop(_, _)
Loop(st, lines) ==
    IF lines = <<>> \/ st.err # "none" THEN st
    ELSE Loop(LoopBody(st, Head(lines)), Tail(lines))

IsRectangular(rows) == \A i, j \in 1..Len(rows) : Len(rows[i]) = Len(rows[j])

\* np.array(rows): a 2-D array when the rows have one length.  Rows of unequal
\* length give a 1-D array of objects or a ValueError, depending on the numpy
\* that is installed.
NpArray(rows) ==
    IF IsRectangular(rows) THEN {[err |-> "none", arr |-> rows]}
    ELSE {[err |-> "none", arr |-> rows], [err |-> "ValueError", arr |-> <<>>]}

\* The possible results of FastaToArray(infile).
FastaToArray(lines) ==
    LET st == Loop(LoopStart, lines) IN
    IF st.err # "none" THEN {[err |-> st.err, arr |-> <<>>, nams |-> <<>>]}
    ELSE LET seqs == Append(st.seqs, st.seq)
             nms == Append(st.nams, st.nam)
         IN  {[err |-> a.err, arr |-> a.arr,
               nams |-> IF a.err = "none" THEN Tail(nms) ELSE <<>>] :
                  a \in NpArray(Tail(seqs))}

\* np.shape(arr)
Shape(a) ==
    IF a = <<>> THEN <<0>>
    ELSE IF IsRectangular(a) THEN <<Len(a), Len(a[1])>>
    ELSE <<Len(a)>>

\* arr.size
Size(a) ==
    LET sh == Shape(a) IN IF Len(sh) = 1 THEN sh[1] ELSE sh[1] * sh[2]

(***************************************************************************)
(* seqType                                                                 *)
(***************************************************************************)
\* The keys of consensusSeq.getNtColours() and consensusSeq.getAAColours():
\* symbol sets that overlap ("A" and the gap are in both).
nucs == {"A", "U", "-"}
aas == {"A", "E", "-"}

\* str.upper() on the characters of the model
upper(c) == IF c = "a" THEN "A" ELSE c

\* CountBody with the second and third test as elif branches of the first:
\* a residue is counted once.
CountBodyElif(c, s0) ==
    LET s == upper(s0) IN
    IF s \in nucs THEN <<c[1] + 1, c[2], c[3]>>
    ELSE IF s \in aas THEN <<c[1], c[2] + 1, c[3]>>
    ELSE <<c[1], c[2], c[3] + 1>>

\* The body of "for s in seq1": three independent tests.
CountBody(c, s0) ==
    LET s == upper(s0)
        n == IF s \in nucs THEN c[1] + 1 ELSE c[1]
        a == IF s \in aas THEN c[2] + 1 ELSE c[2]
        x == IF s \notin aas /\ s \notin nucs THEN c[3] + 1 ELSE c[3]
    IN  <<n, a, x>>

RECURSIVE CountLoop(_, _)
CountLoop(c, seq1) ==
    IF seq1 = <<>> THEN c ELSE CountLoop(CountBody(c, Head(seq1)), Tail(seq1))

max(c) == CHOOSE m \in Range(c) : \A k \in Range(c) : k <= m

\* classify with the amino-acid test before the nucleotide test.
classifyAminoFirst(c) ==
    IF c[2] = max(c) THEN "aa"
    ELSE IF c[1] = max(c) THEN "nt"
    ELSE "RuntimeError"

\* The decision on counts = n, a, x.
classify(c) ==
    IF c[1] = max(c) THEN "nt"
    ELSE IF c[2] = max(c) THEN "aa"
    ELSE "RuntimeError"

seqType(a) ==
    LET c == CountLoop(<<0, 0, 0>>, a[1])
        t == classify(c)
    IN  [counts |-> c,
         typ |-> IF t = "RuntimeError" THEN "none" ELSE t,
         err |-> IF t = "RuntimeError" THEN "ClassificationError" ELSE "none"]

(***************************************************************************)
(* updateNams                                                              *)
(***************************************************************************)
\* updateNams with the test inverted: it keeps the removed names.
updateNamsInverted(nms, removed) == SelectSeq(nms, LAMBDA nam : nam \in removed)

\* updateNams that starts at the second name: the first name is always dropped.
updateNamsFromSecond(nms, removed) ==
    IF nms = <<>> THEN <<>>
    ELSE SelectSeq(Tail(nms), LAMBDA nam : nam \notin removed)

RECURSIVE updateNams(_, _)
updateNams(nms, removed) ==
    IF nms = <<>> THEN <<>>
    ELSE IF Head(nms) \notin removed
         THEN <<Head(nms)>> \o updateNams(Tail(nms), removed)
         ELSE updateNams(Tail(nms), removed)

(***************************************************************************)
(* writeOutfile                                                            *)
(***************************************************************************)
RmHeader == <<"Removed sequences:">>

\* ">%s\n%s\n" % (nam, "".join(list(row))): a header line and a residue line
Record(nam, row) == << <<">">> \o nam, row >>

\* WriteLoop with "i += 1" after the if statement: the cursor also advances
\* on a removed name.
RECURSIVE WriteLoopCursorAlways(_, _, _, _, _, _, _)
WriteLoopCursorAlways(a, nms, removed, i, out, rm, has_rm) ==
    IF nms = <<>> THEN [out |-> out, rm |-> rm, err |-> "none"]
    ELSE IF Head(nms) \notin removed THEN
        IF i > Len(a) THEN [out |-> out, rm |-> rm, err |-> "IndexError"]
        ELSE WriteLoopCursorAlways(a, Tail(nms), removed, i + 1,
                                   out \o Record(Head(nms), a[i]), rm, has_rm)
    ELSE WriteLoopCursorAlways(a, Tail(nms), removed, i + 1, out,
                               IF has_rm THEN Append(rm, Head(nms)) ELSE rm,
                               has_rm)

\* "for nam in nams" with the row cursor i (1-based here); arr[i] past the
\* last row raises IndexError and leaves what was written before.
RECURSIVE WriteLoop(_, _, _, _, _, _, _)
WriteLoop(a, nms, removed, i, out, rm, has_rm) ==
    IF nms = <<>> THEN [out |-> out, rm |-> rm, err |-> "none"]
    ELSE IF Head(nms) \notin removed THEN
        IF i > Len(a) THEN [out |-> out, rm |-> rm, err |-> "IndexError"]
        ELSE WriteLoop(a, Tail(nms), removed, i + 1,
                       out \o Record(Head(nms), a[i]), rm, has_rm)
    ELSE WriteLoop(a, Tail(nms), removed, i, out,
                   IF has_rm THEN Append(rm, Head(nms)) ELSE rm, has_rm)

\* The output file is opened with "w", the report with "a".
writeOutfile(a, nms, removed, rm, has_rm) ==
    LET rm0 == IF has_rm THEN rm.lines \o <<RmHeader>> ELSE rm.lines
        w == WriteLoop(a, nms, removed, 1, <<>>, rm0, has_rm)
    IN  [out |-> [exists |-> TRUE, lines |-> w.out],
         rm |-> [exists |-> rm.exists \/ has_rm, lines |-> w.rm],
         err |-> w.err]

(***************************************************************************)
(* checkArrLength                                                          *)
(***************************************************************************)
emptyAlignmentMessage == "EmptyAlignment"
raggedMessage == "Sequences in alignment are not the same length"

\* checkArrLength without the raise after the write: an alignment with no
\* rows or no columns is written and the run goes on.
checkArrLengthSilent(out, a, onams, removed, rm) ==
    IF 0 \in Range(Shape(a)) THEN
        LET w == writeOutfile(a, onams, removed, rm, TRUE) IN
        [out |-> w.out, rm |-> w.rm, wrote |-> 1, err |-> w.err]
    ELSE IF Len(Shape(a)) = 1 THEN
        [out |-> out, rm |-> rm, wrote |-> 0,
         err |-> "Sequences in alignment are not the same length"]
    ELSE [out |-> out, rm |-> rm, wrote |-> 0, err |-> "none"]

\* The files and the exception after checkArrLength(outfile, arr, orig_nams,
\* removed_seqs, rmfile); out and rm are the files before the call.
checkArrLength(out, a, onams, removed, rm) ==
    IF 0 \in Range(Shape(a)) THEN
        LET w == writeOutfile(a, onams, removed, rm, TRUE) IN
        [out |-> w.out, rm |-> w.rm, wrote |-> 1,
         err |-> IF w.err # "none" THEN w.err ELSE emptyAlignmentMessage]
    ELSE IF Len(Shape(a)) = 1 THEN
        [out |-> out, rm |-> rm, wrote |-> 0, err |-> raggedMessage]
    ELSE [out |-> out, rm |-> rm, wrote |-> 0, err |-> "none"]

(***************************************************************************)
(* The trimming functions, from their contract: each takes the current     *)
(* alignment and returns the possible (new alignment, removal record)      *)
(* pairs.                                                                  *)
(***************************************************************************)
Width(a) == IF a = <<>> THEN 0 ELSE Len(a[1])

DropCols(a, P) == [i \in 1..Len(a) |-> DropIdx(a[i], P)]

\* Sequence-removing: drops some rows and reports their names.
RemoveRows(a, nms) ==
    {[arr |-> DropIdx(a, D), r |-> {nms[i] : i \in D}] :
        D \in SUBSET (1..Min(Len(a), Len(nms)))}

\* Keeps the shape; replaces the first residue of at most one row by a gap
\* and reports the row's name with what is left of it.
cropEnds(a, nms) ==
    {[arr |-> a, r |-> {}]} \cup
    {[arr |-> [a EXCEPT ![i] = [a[i] EXCEPT ![1] = "-"]],
      r |-> {<<nms[i], <<1, Len(a[i])>> >>}] :
        i \in {k \in 1..Min(Len(a), Len(nms)) : Len(a[k]) >= 1}}

removeBadlyAligned(a, nms) == RemoveRows(a, nms)

removeTooShort(a, nms) == RemoveRows(a, nms)

\* RemoveCols that leaves the position list as it was given.
RemoveColsKeepsList(a, relPos, P) ==
    [arr |-> DropCols(a, P), r |-> {relPos[p] : p \in P}, relPos |-> relPos]

\* What a column-removing function does with the columns P: it drops them,
\* reports their original indices, read from the position list it is given,
\* and narrows that list (main() passes the list object and never assigns
\* it again, so the narrowing is done on the object itself).
RemoveCols(a, relPos, P) ==
    LET r == {relPos[p] : p \in P} IN
    [arr |-> DropCols(a, P), r |-> r,
     relPos |-> SelectSeq(relPos, LAMBDA c : c \notin r)]

\* Column-removing: drops some columns.
removeInsertions(a, relPos) ==
    {RemoveCols(a, relPos, P) : P \in SUBSET (1..Min(Width(a), Len(relPos)))}

\* Drops the columns that hold a gap in every row.
removeGapOnly(a, relPos) ==
    {RemoveCols(a, relPos,
                {p \in 1..Min(Width(a), Len(relPos)) :
                    \A i \in 1..Len(a) : a[i][p] = "-"})}

(***************************************************************************)
(* main(): the command line                                                *)
(***************************************************************************)
Flags == {"--crop_ends", "--remove_badlyaligned", "--remove_insertions",
          "--remove_short", "--remove_gaponly"}

\* parser.parse_args(): four store_true flags and one store_false flag
parse_args(argv) ==
    [crop_ends |-> "--crop_ends" \in argv,
     remove_badlyaligned |-> "--remove_badlyaligned" \in argv,
     remove_insertions |-> "--remove_insertions" \in argv,
     remove_short |-> "--remove_short" \in argv,
     remove_gaponly |-> ~("--remove_gaponly" \in argv)]

\* after with the remove_insertions and remove_short blocks exchanged.
afterSwapped(p) ==
    CASE p = "crop_ends" -> "remove_badlyaligned"
      [] p = "remove_badlyaligned" -> "remove_short"
      [] p = "remove_short" -> "remove_insertions"
      [] p = "remove_insertions" -> "remove_gaponly"
      [] p = "remove_gaponly" -> "post"

\* The order of the "if args.<stage>:" blocks of main().
after(p) ==
    CASE p = "crop_ends" -> "remove_badlyaligned"
      [] p = "remove_badlyaligned" -> "remove_insertions"
      [] p = "remove_insertions" -> "remove_short"
      [] p = "remove_short" -> "remove_gaponly"
      [] p = "remove_gaponly" -> "post"

\* markupdict[k] = v
Put(m, k, v) == [x \in DOMAIN m \cup {k} |-> IF x = k THEN v ELSE m[x]]

(***************************************************************************)
(* Input files of the pipeline: n records named "s", "ss", ... (the last   *)
(* one named like the first when dup), each with w residues (the last one  *)
(* with w + 1 when ragged), all fill except a gap in column gapcol.        *)
(***************************************************************************)
NameOf(i) == [k \in 1..i |-> "s"]

InputName(i, n, dup) == IF dup /\ i = n /\ n >= 2 THEN NameOf(1) ELSE NameOf(i)

InputRow(i, n, w, ragged, fill, gapcol) ==
    [j \in 1..(IF ragged /\ i = n THEN w + 1 ELSE w) |->
        IF j = gapcol THEN "-" ELSE fill]

RECURSIVE InputLines(_, _, _, _, _, _, _)
InputLines(i, n, w, dup, ragged, fill, gapcol) ==
    IF i > n THEN <<>>
    ELSE LET row == InputRow(i, n, w, ragged, fill, gapcol)
         IN  << <<">">> \o InputName(i, n, dup) >>
             \o (IF row = <<>> THEN <<>> ELSE <<row>>)
             \o InputLines(i + 1, n, w, dup, ragged, fill, gapcol)

Fills == {"A", "E", "?"}

InputFiles ==
    {InputLines(1, n, w, dup, ragged, fill, gapcol) :
        n \in 0..MaxRows, w \in 0..MaxCols, dup \in BOOLEAN, ragged \in BOOLEAN,
        fill \in Fills, gapcol \in 0..MaxCols}

(***************************************************************************)
(* main(): the run                                                         *)
(***************************************************************************)
\* A state of main() at block p in which no stage has run yet.
StateAt(p, f, argv, a, nms, relPos, removed, rm) ==
    /\ pc = p
    /\ args = parse_args(argv)
    /\ infile = f
    /\ arr = a
    /\ nams = updateNams(nms, removed)
    /\ orig_arr = a
    /\ orig_nams = nms
    /\ markupdict = <<>>
    /\ relativePositions = relPos
    /\ removed_seqs = removed
    /\ removed_cols = {}
    /\ counts = <<0, 0, 0>>
    /\ typ = "none"
    /\ outfile = NoFile
    /\ rmfile = rm
    /\ outWrites = 0
    /\ err = "none"
    /\ executed = <<>>

\* The state before FastaToArray is called on file f with arguments argv.
Start(f, argv) == StateAt("load", f, argv, <<>>, <<>>, <<>>, {}, NoFile)

Init == \E f \in InputFiles, argv \in SUBSET Flags : Start(f, argv)

\* arr, nams = FastaToArray(args.infile)
Load ==
    /\ pc = "load"
    /\ \E o \in FastaToArray(infile) :
        /\ arr' = o.arr
        /\ nams' = o.nams
        /\ err' = o.err
        /\ pc' = IF o.err = "none" THEN "snapshot" ELSE "failed"
    /\ UNCHANGED <<args, infile, orig_arr, orig_nams, markupdict,
                   relativePositions, removed_seqs, removed_cols, counts, typ,
                   outfile, rmfile, outWrites, executed>>

\* The copies and the empty records; orig_arr[0] raises IndexError on an
\* alignment without rows.
Snapshot ==
    /\ pc = "snapshot"
    /\ orig_arr' = arr
    /\ orig_nams' = nams
    /\ markupdict' = <<>>
    /\ IF Len(arr) = 0
       THEN /\ err' = "IndexError"
            /\ pc' = "failed"
            /\ UNCHANGED <<relativePositions, removed_seqs, removed_cols>>
       ELSE /\ relativePositions' = [i \in 1..Len(arr[1]) |-> i - 1]
            /\ removed_seqs' = {}
            /\ removed_cols' = {}
            /\ pc' = "detect"
            /\ UNCHANGED err
    /\ UNCHANGED <<args, infile, arr, nams, counts, typ, outfile, rmfile,
                   outWrites, executed>>

\* typ = seqType(arr)
Detect ==
    /\ pc = "detect"
    /\ LET d == seqType(arr) IN
        /\ counts' = d.counts
        /\ typ' = d.typ
        /\ err' = d.err
        /\ pc' = IF d.err = "none" THEN "guard" ELSE "failed"
    /\ UNCHANGED <<args, infile, arr, nams, orig_arr, orig_nams, markupdict,
                   relativePositions, removed_seqs, removed_cols, outfile,
                   rmfile, outWrites, executed>>

\* The report is reset, then the loaded alignment is checked.
ResetAndGuard ==
    /\ pc = "guard"
    /\ LET g == checkArrLength(outfile, arr, orig_nams, removed_seqs, EmptyFile) IN
        /\ outfile' = g.out
        /\ rmfile' = g.rm
        /\ outWrites' = outWrites + g.wrote
        /\ err' = g.err
        /\ pc' = IF g.err = "none" THEN "crop_ends" ELSE "failed"
    /\ UNCHANGED <<args, infile, arr, nams, orig_arr, orig_nams, markupdict,
                   relativePositions, removed_seqs, removed_cols, counts, typ,
                   executed>>

\* StageDone with orig_arr and orig_nams bound to the current alignment and
\* names instead of to copies of the loaded ones.
StageDoneAliased(stage, has_exit, newarr, r, rs, rc, nms, relPos) ==
    /\ executed' = Append(executed, stage)
    /\ arr' = newarr
    /\ orig_arr' = newarr
    /\ relativePositions' = relPos
    /\ IF has_exit /\ Size(newarr) = 0
       THEN /\ pc' = "exited"
            /\ UNCHANGED <<markupdict, removed_seqs, removed_cols, nams,
                           orig_nams, outfile, rmfile, outWrites, err>>
       ELSE LET g == checkArrLength(outfile, newarr, nms, rs, rmfile) IN
            /\ markupdict' = Put(markupdict, stage, r)
            /\ removed_seqs' = rs
            /\ removed_cols' = rc
            /\ nams' = nms
            /\ orig_nams' = nms
            /\ outfile' = g.out
            /\ rmfile' = g.rm
            /\ outWrites' = outWrites + g.wrote
            /\ err' = g.err
            /\ pc' = IF g.err = "none" THEN after(stage) ELSE "failed"
    /\ UNCHANGED <<args, infile, counts, typ>>

\* What a stage block shares: the stage was called, returned newarr and left
\* the position list as relPos; the
\* block then ends the run (sys.exit() on an alignment of size 0, where
\* present) or records r, updates the trackers and calls checkArrLength.
StageDone(stage, has_exit, newarr, r, rs, rc, nms, relPos) ==
    /\ executed' = Append(executed, stage)
    /\ arr' = newarr
    /\ relativePositions' = relPos
    /\ IF has_exit /\ Size(newarr) = 0
       THEN /\ pc' = "exited"
            /\ UNCHANGED <<markupdict, removed_seqs, removed_cols, nams,
                           outfile, rmfile, outWrites, err>>
       ELSE LET g == checkArrLength(outfile, newarr, orig_nams, rs, rmfile) IN
            /\ markupdict' = Put(markupdict, stage, r)
            /\ removed_seqs' = rs
            /\ removed_cols' = rc
            /\ nams' = nms
            /\ outfile' = g.out
            /\ rmfile' = g.rm
            /\ outWrites' = outWrites + g.wrote
            /\ err' = g.err
            /\ pc' = IF g.err = "none" THEN after(stage) ELSE "failed"
    /\ UNCHANGED <<args, infile, orig_arr, orig_nams, counts, typ>>

\* A stage whose flag is off.
StageOff(stage) ==
    /\ pc' = after(stage)
    /\ UNCHANGED <<args, infile, arr, nams, orig_arr, orig_nams, markupdict,
                   relativePositions, removed_seqs, removed_cols, counts, typ,
                   outfile, rmfile, outWrites, err, executed>>

CropEnds ==
    /\ pc = "crop_ends"
    /\ IF args.crop_ends
       THEN \E o \in cropEnds(arr, nams) :
                StageDone("crop_ends", TRUE, o.arr, o.r,
                          removed_seqs, removed_cols, nams, relativePositions)
       ELSE StageOff("crop_ends")

RemoveBadlyAligned ==
    /\ pc = "remove_badlyaligned"
    /\ IF args.remove_badlyaligned
       THEN \E o \in removeBadlyAligned(arr, nams) :
                StageDone("remove_badlyaligned", FALSE, o.arr, o.r,
                          removed_seqs \cup o.r, removed_cols,
                          updateNams(nams, o.r), relativePositions)
       ELSE StageOff("remove_badlyaligned")

RemoveInsertions ==
    /\ pc = "remove_insertions"
    /\ IF args.remove_insertions
       THEN \E o \in removeInsertions(arr, relativePositions) :
                StageDone("remove_insertions", TRUE, o.arr, o.r,
                          removed_seqs, removed_cols \cup o.r, nams, o.relPos)
       ELSE StageOff("remove_insertions")

\* RemoveShort with "removed_seqs = r" for "removed_seqs = removed_seqs | r".
RemoveShortOverwrites ==
    /\ pc = "remove_short"
    /\ IF args.remove_short
       THEN \E o \in removeTooShort(arr, nams) :
                StageDone("remove_short", TRUE, o.arr, o.r,
                          o.r, removed_cols,
                          updateNams(nams, o.r), relativePositions)
       ELSE StageOff("remove_short")

RemoveShort ==
    /\ pc = "remove_short"
    /\ IF args.remove_short
       THEN \E o \in removeTooShort(arr, nams) :
                StageDone("remove_short", TRUE, o.arr, o.r,
                          removed_seqs \cup o.r, removed_cols,
                          updateNams(nams, o.r), relativePositions)
       ELSE StageOff("remove_short")

\* RemoveGapOnly with the stage called on the copy of the loaded alignment.
RemoveGapOnlyOnOriginal ==
    /\ pc = "remove_gaponly"
    /\ IF args.remove_gaponly
       THEN \E o \in removeGapOnly(orig_arr, relativePositions) :
                StageDone("remove_gaponly", TRUE, o.arr, o.r,
                          removed_seqs, removed_cols, nams, o.relPos)
       ELSE StageOff("remove_gaponly")

RemoveGapOnly ==
    /\ pc = "remove_gaponly"
    /\ IF args.remove_gaponly
       THEN \E o \in removeGapOnly(arr, relativePositions) :
                StageDone("remove_gaponly", TRUE, o.arr, o.r,
                          removed_seqs, removed_cols, nams, o.relPos)
       ELSE StageOff("remove_gaponly")

\* The similarity matrices, plots, consensus and logo: they read the state
\* and write files of their own.
PostProcess ==
    /\ pc = "post"
    /\ pc' = "write"
    /\ UNCHANGED <<args, infile, arr, nams, orig_arr, orig_nams, markupdict,
                   relativePositions, removed_seqs, removed_cols, counts, typ,
                   outfile, rmfile, outWrites, err, executed>>

\* writeOutfile(outfile, arr, orig_nams, removed_seqs, rmfile)
WriteFinal ==
    /\ pc = "write"
    /\ LET w == writeOutfile(arr, orig_nams, removed_seqs, rmfile, TRUE) IN
        /\ outfile' = w.out
        /\ rmfile' = w.rm
        /\ outWrites' = outWrites + 1
        /\ err' = w.err
        /\ pc' = IF w.err = "none" THEN "done" ELSE "failed"
    /\ UNCHANGED <<args, infile, arr, nams, orig_arr, orig_nams, markupdict,
                   relativePositions, removed_seqs, removed_cols, counts, typ,
                   executed>>

Next ==
    \/ Load
    \/ Snapshot
    \/ Detect
    \/ ResetAndGuard
    \/ CropEnds
    \/ RemoveBadlyAligned
    \/ RemoveInsertions
    \/ RemoveShort
    \/ RemoveGapOnly
    \/ PostProcess
    \/ WriteFinal

Spec == Init /\ [][Next]_vars

(***************************************************************************)
(* FastaToArray alone, on every file of at most MaxLines lines of at most  *)
(* MaxLineLen characters.                                                  *)
(***************************************************************************)
LineChars == {">", "s", " "}

TextFiles == SeqsUpTo(SeqsUpTo(LineChars, MaxLineLen), MaxLines)

InitFastaToArray == \E f \in TextFiles : Start(f, {"--remove_gaponly"})

SpecFastaToArray == InitFastaToArray /\ [][Load]_vars

(***************************************************************************)
(* seqType alone, on every first row of at most MaxSeqLen residues.        *)
(***************************************************************************)
Residues == {"A", "U", "E", "?", "a"}

InitSeqType ==
    \E seq1 \in SeqsUpTo(Residues, MaxSeqLen) :
        StateAt("detect",
                << <<">">> \o NameOf(1) >> \o (IF seq1 = <<>> THEN <<>> ELSE <<seq1>>),
                {"--remove_gaponly"}, <<seq1>>, <<NameOf(1)>>,
                [i \in 1..Len(seq1) |-> i - 1], {}, NoFile)

SpecSeqType == InitSeqType /\ [][Detect]_vars

(***************************************************************************)
(* writeOutfile alone, as main() calls it last, on every list of at most   *)
(* MaxRows names, every set of removed names among them and every          *)
(* alignment of at most MaxRows one-residue rows.                          *)
(***************************************************************************)
NamePool == {NameOf(i) : i \in 1..MaxRows}

RowPool == {<<"A">>, <<"E">>}

InitWriteOutfile ==
    \E nms \in SeqsUpTo(NamePool, MaxRows), a \in SeqsUpTo(RowPool, MaxRows) :
        \E removed \in SUBSET Range(nms) :
            StateAt("write", <<>>, {"--remove_gaponly"}, a, nms,
                    IF a = <<>> THEN <<>> ELSE <<0>>, removed, EmptyFile)

SpecWriteOutfile == InitWriteOutfile /\ [][WriteFinal]_vars

(***************************************************************************)
(* The tracker updates of main() alone: the statements that follow the call *)
(* of a sequence-removing stage (markupdict, removed_seqs, nams) and of a   *)
(* column-removing stage (markupdict, removed_cols), applied to every       *)
(* removal set r over the names and the column indices of the model, on    *)
(* every list of at most MaxRows names of which some are already removed.  *)
(***************************************************************************)
ColPool == 0..MaxCols

InitTracker ==
    \E nms \in SeqsUpTo(NamePool, MaxRows), w \in 0..MaxCols,
       p \in {"track_seqs", "track_cols"} :
        \E removed \in SUBSET Range(nms) :
            StateAt(p, <<>>, {"--remove_badlyaligned", "--remove_insertions"},
                    [i \in 1..Len(updateNams(nms, removed)) |-> [j \in 1..w |-> "A"]],
                    nms, [j \in 1..w |-> j - 1], removed, EmptyFile)

\* markupdict['remove_badlyaligned'] = r; removed_seqs = removed_seqs | r;
\* nams = updateNams(nams, r)
TrackSeqs ==
    /\ pc = "track_seqs"
    /\ \E r \in SUBSET NamePool :
        /\ markupdict' = Put(markupdict, "remove_badlyaligned", r)
        /\ removed_seqs' = removed_seqs \cup r
        /\ nams' = updateNams(nams, r)
    /\ pc' = "tracked"
    /\ UNCHANGED <<args, infile, arr, orig_arr, orig_nams, relativePositions,
                   removed_cols, counts, typ, outfile, rmfile, outWrites, err,
                   executed>>

\* markupdict['remove_insertions'] = r; removed_cols = removed_cols | r
TrackCols ==
    /\ pc = "track_cols"
    /\ \E r \in SUBSET ColPool :
        /\ markupdict' = Put(markupdict, "remove_insertions", r)
        /\ removed_cols' = removed_cols \cup r
    /\ pc' = "tracked"
    /\ UNCHANGED <<args, infile, arr, nams, orig_arr, orig_nams,
                   relativePositions, removed_seqs, counts, typ, outfile, rmfile,
                   outWrites, err, executed>>

SpecTracker == InitTracker /\ [][TrackSeqs \/ TrackCols]_vars

(***************************************************************************)
(* Properties                                                              *)
(***************************************************************************)
\* The names of orig_nams that are not in removed_seqs, in order.
NonRemoved == SelectSeq(orig_nams, LAMBDA nm : nm \notin removed_seqs)

\* The names of orig_nams that are in removed_seqs, in order.
Removed == SelectSeq(orig_nams, LAMBDA nm : nm \in removed_seqs)

NamesUnique(s) == \A i, j \in 1..Len(s) : s[i] = s[j] => i = j

\* The copies of the loaded alignment have been taken.
Loaded == pc \notin {"load", "snapshot"}

\* C1: after load and after every stage (the stages honouring their contract)
\* the names of orig_nams not in removed_seqs are, in order, the current nams,
\* and there are as many of them as the current alignment has rows.
C1_PositionalCorrespondence ==
    Loaded => (NonRemoved = nams /\ Len(NonRemoved) = Len(arr))

\* C2: for valid inputs (the names are unique), after load and after every
\* stage, for every combination of flags,
\* |nams| + |removed_seqs| = |orig_nams|.
C2_NameAccounting ==
    (Loaded /\ NamesUnique(orig_nams)) =>
        Len(nams) + Cardinality(removed_seqs) = Len(orig_nams)

\* Both sequence-removing stages have run on unique names, each removing one
\* of three sequences.
C2_Witness ==
    /\ pc = "done"
    /\ NamesUnique(orig_nams)
    /\ Len(orig_nams) = 3
    /\ Len(nams) = 1
    /\ "remove_badlyaligned" \in DOMAIN markupdict
    /\ "remove_short" \in DOMAIN markupdict
    /\ Cardinality(markupdict["remove_badlyaligned"]) = 1
    /\ Cardinality(markupdict["remove_short"]) = 1

\* C3: for rectangular inputs, after load and after every stage whose block
\* ran to its end (sys.exit() did not cut it short),
\* len(relativePositions) + |removed_cols| is the original width and no
\* removed column is an entry of relativePositions.
C3_ColumnAccounting ==
    (Loaded /\ pc # "exited" /\ orig_arr # <<>> /\ IsRectangular(orig_arr)) =>
        /\ Len(relativePositions) + Cardinality(removed_cols) = Len(orig_arr[1])
        /\ removed_cols \cap Range(relativePositions) = {}

\* C4: when a stage leaves the alignment with no rows or no columns, the run
\* has written the output file and the removal report from the current
\* alignment and has ended with the empty-alignment error.
C4_WriteThenFail ==
    (executed # <<>> /\ 0 \in Range(Shape(arr))) =>
        /\ pc = "failed"
        /\ err = emptyAlignmentMessage
        /\ outfile.exists
        /\ outfile = writeOutfile(arr, orig_nams, removed_seqs, EmptyFile, TRUE).out
        /\ RmHeader \in Range(rmfile.lines)

\* C5: when the loaded rows are not all of one length the run fails before
\* any stage, with the ragged-alignment error (or already with the detector's
\* error, the detector being called first), and neither the output alignment
\* nor the removal report is created.
C5_RaggedFailsWithoutOutput ==
    (arr # <<>> /\ ~IsRectangular(arr)) =>
        \/ pc \in {"snapshot", "detect", "guard"}
        \/ /\ pc = "failed"
           /\ err \in {raggedMessage, "ClassificationError"}
           /\ executed = <<>>
           /\ ~outfile.exists
           /\ ~rmfile.exists

\* The lines writeOutfile is to produce: for the k-th non-removed name, its
\* header line and the k-th row.
ExpectedLines ==
    [j \in 1..(2 * Len(NonRemoved)) |->
        IF j % 2 = 1 THEN <<">">> \o NonRemoved[(j + 1) \div 2] ELSE arr[j \div 2]]

\* C6: with removed_seqs a subset of the names and as many rows as
\* non-removed names, writeOutfile writes one record per non-removed name, in
\* the order of orig_nams, the k-th of them with the k-th row, and appends to
\* the report its header and the removed names in the order of orig_nams.
C6_ReconcilerResult ==
    (pc \in {"done", "failed"} /\ removed_seqs \subseteq Range(orig_nams)
        /\ Len(NonRemoved) = Len(arr)) =>
        /\ err = "none"
        /\ outfile = [exists |-> TRUE, lines |-> ExpectedLines]
        /\ rmfile = [exists |-> TRUE, lines |-> <<RmHeader>> \o Removed]

\* Names s, ss, sss with ss removed and rows A, E: the records are (s, A) and
\* (sss, E) and the report names ss.
C6_Witness ==
    /\ pc = "done"
    /\ orig_nams = <<NameOf(1), NameOf(2), NameOf(3)>>
    /\ removed_seqs = {NameOf(2)}
    /\ arr = << <<"A">>, <<"E">> >>
    /\ outfile.lines = << <<">", "s">>, <<"A">>, <<">", "s", "s", "s">>, <<"E">> >>
    /\ rmfile.lines = <<RmHeader, NameOf(2)>>

StageOrder ==
    <<"crop_ends", "remove_badlyaligned", "remove_insertions", "remove_short",
      "remove_gaponly">>

Pos(stage) == CHOOSE k \in 1..Len(StageOrder) : StageOrder[k] = stage

\* C7: the stages that have executed are stages whose flag is on, they have
\* executed in the order crop_ends, remove_badlyaligned, remove_insertions,
\* remove_short, remove_gaponly, each at most once, and every enabled stage
\* that comes earlier in this order than an executed one has executed before it.
C7_StageOrder ==
    /\ \A i \in 1..Len(executed) :
          executed[i] \in Range(StageOrder) /\ args[executed[i]]
    /\ \A i, j \in 1..Len(executed) :
          i < j => Pos(executed[i]) < Pos(executed[j])
    /\ \A j \in 1..Len(executed), k \in 1..Len(StageOrder) :
          (k < Pos(executed[j]) /\ args[StageOrder[k]]) =>
              \E i \in 1..(j - 1) : executed[i] = StageOrder[k]

\* A run with all five stages enabled has finished.
C7_Witness == pc = "done" /\ executed = StageOrder

\* C8: seqType returns nucleotide iff n is the (possibly tied) maximum of
\* n, a, x; otherwise amino acid iff a is the (possibly tied) maximum;
\* otherwise it fails, which happens exactly when x is greater than both.
C8_DecisionRule ==
    pc # "detect" =>
        LET n == counts[1]
            a == counts[2]
            x == counts[3]
        IN  /\ (typ = "nt") <=> (n >= a /\ n >= x)
            /\ (typ = "aa") <=> (~(n >= a /\ n >= x) /\ a >= n /\ a >= x)
            /\ (err = "ClassificationError") <=> (x > n /\ x > a)
            /\ (err = "ClassificationError") <=> (typ = "none")
            /\ (err = "ClassificationError") <=> (pc = "failed")

\* The tie n = 4, a = 4, x = 0 is classified as nucleotide.
C8_Witness == pc = "guard" /\ counts = <<4, 4, 0>> /\ typ = "nt"

\* The indices of the first row whose residue, in upper case, is in S.
Among(S) == {i \in 1..Len(arr[1]) : upper(arr[1][i]) \in S}

Symbols == {upper(c) : c \in Residues \cup {"-"}}

\* C9 as stated: every residue of the first row is counted in exactly one
\* bucket, one in both symbol sets as nucleotide only, so n + a + x is the
\* length of the first row.
C9_ExclusiveBuckets ==
    pc # "detect" =>
        /\ counts[1] = Cardinality(Among(nucs))
        /\ counts[2] = Cardinality(Among(aas \ nucs))
        /\ counts[3] = Cardinality(Among(Symbols \ (nucs \cup aas)))
        /\ counts[1] + counts[2] + counts[3] = Len(arr[1])

\* C9 as amended: n counts the residues in the nucleotide set, a those in
\* the amino-acid set, x those in neither; a residue in both sets is counted
\* in n and in a, so n + a + x is the length of the first row plus the
\* number of its residues that are in both sets.
C9_IndependentBuckets ==
    pc # "detect" =>
        /\ counts[1] = Cardinality(Among(nucs))
        /\ counts[2] = Cardinality(Among(aas))
        /\ counts[3] = Cardinality(Among(Symbols \ (nucs \cup aas)))
        /\ counts[1] + counts[2] + counts[3]
              = Len(arr[1]) + Cardinality(Among(nucs \cap aas))

\* A first row with a residue of each kind, the one in both sets in lower case.
C9_Witness ==
    /\ pc = "guard"
    /\ arr[1] = <<"a", "U", "E", "?">>
    /\ counts = <<2, 2, 1>>

\* A header line, as the loader sees it: the stripped line starts with ">".
IsHeader(line) == strip(line) # <<>> /\ strip(line)[1] = ">"

\* C10: on an empty file and on a file without a header line FastaToArray
\* fails; it returns no (alignment, names) result.
C10_LoaderFailsWithoutHeader ==
    (pc # "load" /\ ~(\E i \in 1..Len(infile) : IsHeader(infile[i]))) =>
        (pc = "failed" /\ err # "none")

\* C11: a tracker update with a removal set that holds a name not in the
\* current nams (a column index not in the current relativePositions) raises
\* an error or leaves nams, removed_seqs, relativePositions and removed_cols
\* as they were.
C11_TrackerRejectsAbsent ==
    [][((pc = "track_seqs"
            /\ ~(markupdict'["remove_badlyaligned"] \subseteq Range(nams)))
        \/ (pc = "track_cols"
            /\ ~(markupdict'["remove_insertions"] \subseteq Range(relativePositions))))
       => (err' # "none"
            \/ (nams' = nams /\ removed_seqs' = removed_seqs
                /\ relativePositions' = relativePositions
                /\ removed_cols' = removed_cols))]_vars

\* C12: after a tracker update with the removal set r, the same update again
\* changes nothing: updateNams(nams, r) is nams, with its order, and the
\* union of the removed set with r is the removed set.
C12_TrackerIdempotent ==
    /\ (pc = "tracked" /\ "remove_badlyaligned" \in DOMAIN markupdict) =>
          LET r == markupdict["remove_badlyaligned"] IN
          /\ updateNams(nams, r) = nams
          /\ removed_seqs \cup r = removed_seqs
    /\ (pc = "tracked" /\ "remove_insertions" \in DOMAIN markupdict) =>
          LET r == markupdict["remove_insertions"] IN
          removed_cols \cup r = removed_cols

\* Of the names s, ss, sss the second had been removed; the update removed
\* the first (and a name that was not there) and left sss.
C12_Witness ==
    /\ pc = "tracked"
    /\ orig_nams = <<NameOf(1), NameOf(2), NameOf(3)>>
    /\ "remove_badlyaligned" \in DOMAIN markupdict
    /\ markupdict["remove_badlyaligned"] = {NameOf(1), NameOf(2)}
    /\ removed_seqs = {NameOf(1), NameOf(2)}
    /\ nams = <<NameOf(3)>>

\* C13: when the number of names of orig_nams not in removed_seqs differs
\* from the number of rows, writeOutfile fails with an error and has written
\* no record.
C13_ReconcilerChecksCounts ==
    (pc \in {"done", "failed"} /\ Len(NonRemoved) # Len(arr)) =>
        (err # "none" /\ outfile.lines = <<>>)

\* main() is past the first checkArrLength and has not ended.
PastGuard ==
    pc \in {"crop_ends", "remove_badlyaligned", "remove_insertions",
            "remove_short", "remove_gaponly", "post", "write", "done"}

\* The alignment has no rows or no columns, or its rows differ in length.
Degenerate(a) == 0 \in Range(Shape(a)) \/ Len(Shape(a)) = 1

\* C14: a failure of checkArrLength ends the run.  No state in which main()
\* goes on holds an alignment that fails the guard's tests; a run that the
\* guard ended has recorded only the stages called so far, has not made the
\* final write (the output was written once, by the guard, for an empty
\* alignment and never for a ragged one); and no step leaves a failed state.
C14_AbortIsFinal ==
    /\ [](PastGuard => ~Degenerate(arr))
    /\ []((pc = "failed" /\ err \in {emptyAlignmentMessage, raggedMessage}) =>
            /\ DOMAIN markupdict = Range(executed)
            /\ outWrites = (IF err = emptyAlignmentMessage THEN 1 ELSE 0))
    /\ [][pc # "failed"]_vars

\* remove_badlyaligned removed every sequence: the guard wrote the output and
\* failed, and the enabled remove_short and remove_gaponly were never called.
C14_Witness ==
    /\ pc = "failed"
    /\ err = emptyAlignmentMessage
    /\ executed = <<"remove_badlyaligned">>
    /\ args.remove_short /\ args.remove_gaponly
    /\ DOMAIN markupdict = {"remove_badlyaligned"}
    /\ outWrites = 1

\* When the stage named by pc is enabled, the step gives one of the given
\* results of the stage function: its alignment and, where the block stores
\* it, its removal record.
CalledOn(stage, results) ==
    (pc = stage /\ args[stage]) =>
        \E o \in results :
            /\ arr' = o.arr
            /\ (pc' # "exited" => markupdict'[stage] = o.r)

\* The columns of a that hold a gap in every row.
GapOnlyCols(a) == {p \in 1..Width(a) : \A i \in 1..Len(a) : a[i][p] = "-"}

\* C15: every stage is called on the current arr with the current nams (the
\* current relativePositions), never on the copies taken after loading.  So
\* once remove_gaponly has run to its end the current alignment has no
\* gap-only column, also where cropEnds made the column gap-only, and what
\* remove_short removes was not removed by remove_badlyaligned before it.
C15_StageInputIsCurrent ==
    /\ [][/\ CalledOn("crop_ends", cropEnds(arr, nams))
          /\ CalledOn("remove_badlyaligned", removeBadlyAligned(arr, nams))
          /\ CalledOn("remove_insertions", removeInsertions(arr, relativePositions))
          /\ CalledOn("remove_short", removeTooShort(arr, nams))
          /\ CalledOn("remove_gaponly", removeGapOnly(arr, relativePositions))]_vars
    /\ []("remove_gaponly" \in DOMAIN markupdict => GapOnlyCols(arr) = {})
    /\ [](("remove_short" \in DOMAIN markupdict
            /\ "remove_badlyaligned" \in DOMAIN markupdict) =>
            markupdict["remove_short"] \cap markupdict["remove_badlyaligned"] = {})

\* One sequence AA: cropEnds replaced its first residue by a gap and
\* remove_gaponly then removed that column, which holds no gap in the loaded
\* alignment.
C15_Witness ==
    /\ pc = "done"
    /\ orig_arr = << <<"A", "A">> >>
    /\ executed = <<"crop_ends", "remove_gaponly">>
    /\ markupdict["crop_ends"] # {}
    /\ markupdict["remove_gaponly"] = {0}
    /\ arr = << <<"A">> >>

StrictlyIncreasing(s) == \A i, j \in 1..Len(s) : i < j => s[i] < s[j]

RECURSIVE IsSubseq(_, _)
IsSubseq(s, t) ==
    IF s = <<>> THEN TRUE
    ELSE IF t = <<>> THEN FALSE
    ELSE IF Head(s) = Head(t) THEN IsSubseq(Tail(s), Tail(t))
    ELSE IsSubseq(s, Tail(t))

\* C17: in every step after the trackers are set up removed_seqs and
\* removed_cols keep what they hold and nams becomes a subsequence of what
\* it was; and no current name is in removed_seqs.
C17_MonotonicRemoval ==
    /\ [][Loaded =>
            /\ removed_seqs \subseteq removed_seqs'
            /\ removed_cols \subseteq removed_cols'
            /\ IsSubseq(nams', nams)]_vars
    /\ [](Loaded => removed_seqs \cap Range(nams) = {})

\* Of three sequences remove_badlyaligned removed one and remove_short
\* another, and remove_insertions removed a column in between.
C17_Witness ==
    /\ pc = "done"
    /\ Len(orig_nams) = 3
    /\ Len(nams) = 1
    /\ Cardinality(removed_seqs) = 2
    /\ {"remove_badlyaligned", "remove_short"} \subseteq DOMAIN markupdict
    /\ Cardinality(markupdict["remove_badlyaligned"]) = 1
    /\ Cardinality(markupdict["remove_short"]) = 1
    /\ removed_cols # {}

\* C18: at every point of a run the keys of markupdict are the stages that
\* have executed so far (all of them enabled), each entry is the removal
\* record its stage returned, and no step changes or removes an entry.
C18_MarkupRecord ==
    /\ [](/\ DOMAIN markupdict = Range(executed)
          /\ \A k \in DOMAIN markupdict : args[k])
    /\ [][/\ CalledOn("crop_ends", cropEnds(arr, nams))
          /\ CalledOn("remove_badlyaligned", removeBadlyAligned(arr, nams))
          /\ CalledOn("remove_insertions", removeInsertions(arr, relativePositions))
          /\ CalledOn("remove_short", removeTooShort(arr, nams))
          /\ CalledOn("remove_gaponly", removeGapOnly(arr, relativePositions))
          /\ \A k \in DOMAIN markupdict :
                k \in DOMAIN markupdict' /\ markupdict'[k] = markupdict[k]]_vars

\* The run ended inside FastaToArray: no copy of a loaded alignment exists.
LoadFailed ==
    /\ pc = "failed"
    /\ executed = <<>>
    /\ err \in {"ValueError", "TypeError"} \/ Loop(LoopStart, infile).err = err

\* C19: orig_arr and orig_nams are what FastaToArray returned for the input
\* file, in every state after the copies are taken: no stage, tracker update
\* or guard call changes them, and the final writeOutfile goes through the
\* names as loaded.
C19_SnapshotFrozen ==
    /\ [][Loaded => (orig_arr' = orig_arr /\ orig_nams' = orig_nams)]_vars
    /\ []((Loaded /\ ~LoadFailed) =>
            \E o \in FastaToArray(infile) :
                /\ o.err = "none"
                /\ orig_arr = o.arr
                /\ orig_nams = o.nams
                /\ pc = "done" =>
                      LET w == writeOutfile(arr, o.nams, removed_seqs, EmptyFile, TRUE)
                      IN  outfile = w.out /\ rmfile = w.rm)

\* A finished run that has cropped, removed two of three sequences and one
\* of two columns: the copies still have three rows and two columns.
C19_Witness ==
    /\ pc = "done"
    /\ Len(orig_arr) = 3 /\ Len(orig_nams) = 3 /\ Width(orig_arr) = 2
    /\ Len(arr) = 1 /\ Len(nams) = 1 /\ Width(arr) = 1
    /\ "crop_ends" \in Range(executed)
    /\ outfile.lines # <<>>

\* A header line as the specification defines it: its first character is ">".
IsHeaderLine(line) == line # <<>> /\ line[1] = ">"

\* A sequence of records: the file is empty or starts with a header line.
IsRecords(lines) == lines = <<>> \/ IsHeaderLine(lines[1])

\* The header lines without their first character, in file order.
RecordNames(lines) ==
    LET hs == SelectSeq(lines, IsHeaderLine) IN [k \in 1..Len(hs) |-> Tail(hs[k])]

\* One row per header line: the non-header lines up to the next header line,
\* concatenated.
RECURSIVE RecordRows(_, _)
RecordRows(lines, rows) ==
    IF lines = <<>> THEN rows
    ELSE IF IsHeaderLine(Head(lines)) THEN RecordRows(Tail(lines), Append(rows, <<>>))
    ELSE RecordRows(Tail(lines),
                    [rows EXCEPT ![Len(rows)] = rows[Len(rows)] \o Head(lines)])

\* C20: for a file that is a sequence of records FastaToArray returns the
\* names in file order, each the header line without its leading ">", and as
\* row i the concatenated non-header lines of record i, one name per header
\* line (rows of unequal length may make np.array fail instead).
C20_LoaderResult ==
    (pc # "load" /\ IsRecords(infile)) =>
        \/ /\ err = "none"
           /\ nams = RecordNames(infile)
           /\ arr = RecordRows(infile, <<>>)
           /\ Len(nams) = Len(SelectSeq(infile, IsHeaderLine))
        \/ /\ err = "ValueError"
           /\ ~IsRectangular(RecordRows(infile, <<>>))

\* The run has ended and no exception ended it.
EndedWithoutError == pc \in {"done", "exited"} /\ err = "none"

\* C21: the output alignment is opened for writing at most once in a run: by
\* checkArrLength right before its empty-alignment error, or by the last
\* statement of main() after every enabled stage has passed the guard, never
\* by both; and a run that ends without error has written it exactly once,
\* by that last statement.
C21_OutputWrittenOnce ==
    /\ outWrites \in {0, 1}
    /\ outfile.exists <=> outWrites = 1
    /\ outWrites = 1 =>
          \/ pc = "done" /\ err = "none"
          \/ pc = "failed" /\ err \in {emptyAlignmentMessage, "IndexError"}
    /\ EndedWithoutError =>
          /\ outWrites = 1
          /\ outfile = writeOutfile(arr, orig_nams, removed_seqs, EmptyFile, TRUE).out

====
